---- MODULE Spec2Model ----
(***************************************************************************)
(* Profile resolution of the telescope configuration (src/src/env.rs).     *)
(*                                                                         *)
(* A TelescopeConfig is a tree: six optional attributes and an optional    *)
(* map of named sub-profiles.  make_concrete checks that the requested     *)
(* profile path exists, then builds a ConcreteConfig by a reverse_lookup   *)
(* of each attribute, from the narrowest profile up to the root.           *)
(*                                                                         *)
(* After it come the lazy static CONFIG and cli() of the same file, and    *)
(* three parts of the web server: submit_meeting                           *)
(* (src/src/web/services/meetings/create.rs), the ResponseError impl of    *)
(* TelescopeError (src/src/error.rs) and profile_delete                    *)
(* (src/src/web/services/user/delete.rs).  Each has a specification of its *)
(* own over the variables it uses.                                         *)
(***************************************************************************)
EXTENDS Naturals, Sequences, FiniteSets, TLC

VARIABLES
    tree,       \* self: the parsed TelescopeConfig (the root node)
    profile,    \* make_concrete's argument: the requested profile path
    pc,         \* position in make_concrete
    scope,      \* the local `scope` of the profile check loop
    i,          \* index in `profile` of the loop's next `part`
    cfg,        \* the fields of the ConcreteConfig evaluated so far
    calls,      \* the attributes reverse_lookup has been invoked for, in order
    stderr,     \* what the run has written with eprintln!
    status,     \* how the run stands: running, exited, panicked or returned
    exit_code,  \* the argument of exit(), when status = "exited"
    panic_msg,  \* the message of the panic, when status = "panicked"
    ret,        \* the value handed back to the caller, when status = "returned"
    prev,       \* how the previous run on the same inputs ended, if there was one
    once,       \* the state of the Once that guards the lazy static CONFIG
    config,     \* CONFIG: the ConcreteConfig, once it has been stored
    tpc,        \* per thread: where it stands in its use of CONFIG
    seen,       \* per thread: the value its last dereference of CONFIG gave
    inits,      \* how often the initializer cli() has been entered
    arg,        \* commandline.profile, the profile option as given
    cpc,        \* position in the part of cli() that makes the profile path
    profile_path, \* cli's profile_path
    \* submit_meeting (src/src/web/services/meetings/create.rs)
    form,       \* the submitted FinishForm
    available_semesters, \* return_form.template["context"]["available_semesters"]
    issues,     \* return_form.template["issues"]
    hpc,        \* position in submit_meeting
    selected_semester, \* the local of that name
    start_time, \* the parsed start time
    end_time,   \* the parsed end time
    meetings,   \* the meetings the API has created
    execute_calls, \* the arguments of the calls of CreateMeeting::execute
    response,   \* what submit_meeting returned
    \* impl ResponseError for TelescopeError (src/src/error.rs)
    err,        \* self: the TelescopeError
    epc,        \* position in error_response
    log,        \* what error! has logged
    json_str,   \* the local of that name
    http_response, \* the HttpResponse built
    \* profile_delete (src/src/web/services/user/delete.rs)
    dpc,        \* per request: position in profile_delete
    identity,   \* per request: the user the session cookie remembers, if any
    username,   \* per request: the resolved username
    users,      \* the accounts the API holds
    events,     \* the effects of the handlers, in the order they happened
    outcome     \* per request: what profile_delete returned

\* The variables of a run of make_concrete, of the lazy static, and of cli.
coreVars == <<tree, profile, pc, scope, i, cfg, calls, stderr, status, exit_code,
              panic_msg, ret, prev>>
lazyVars == <<once, config, tpc, seen, inits>>
cliVars == <<arg, cpc, profile_path>>

\* The variables of the request handlers.
meetingVars == <<form, available_semesters, issues, hpc, selected_semester,
                 start_time, end_time, meetings, execute_calls, response>>
errorVars == <<err, epc, log, json_str, http_response>>
deleteVars == <<dpc, identity, username, users, events, outcome>>
webVars == <<meetingVars, errorVars, deleteVars>>

vars == <<tree, profile, pc, scope, i, cfg, calls, stderr, status, exit_code,
          panic_msg, ret, prev, once, config, tpc, seen, inits, arg, cpc,
          profile_path, form, available_semesters, issues, hpc,
          selected_semester, start_time, end_time, meetings, execute_calls,
          response, err, epc, log, json_str, http_response, dpc, identity,
          username, users, events, outcome>>

-----------------------------------------------------------------------------
(* Bounds of the model. *)

\* The deepest profile nesting of a tree and the longest requested path.
MaxDepth == 2

\* The number of threads that use CONFIG.
NumThreads == 2

\* The longest profile option given on the command line, in pieces (a
\* profile name or a dot).
MaxArgLen == 4

\* The last day of the calendar the meeting form and the semesters lie in.
MaxDay == 3

\* The number of requests to /profile_delete in flight.
NumRequests == 2

-----------------------------------------------------------------------------
(* Option<T>, as the code uses it. *)

None == [some |-> FALSE]
Some(v) == [some |-> TRUE, val |-> v]
IsSome(o) == o.some

\* A panic raised while a value is computed (Option::unwrap on None).
Panic == [panic |-> TRUE]
IsPanic(r) == "panic" \in DOMAIN r

\* Option::or: self if it is Some, otherwise the argument.
OptionOr(a, b) == IF IsSome(a) THEN a ELSE b

-----------------------------------------------------------------------------
(* TelescopeConfig and ConcreteConfig. *)

\* The attributes of a TelescopeConfig besides `profile`.
Attrs == {"log_level", "bind_to", "database_url", "email_config",
          "sysadmin_config", "tls_config"}

\* The fields of the ConcreteConfig struct expression, in the order written,
\* which is the order Rust evaluates them in.
FieldOrder == <<"tls_config", "log_level", "bind_to", "database_url",
                "email_config", "sysadmin_config">>

\* The fields whose lookup is followed by .expect(..).
Required == {"tls_config", "log_level", "bind_to", "database_url", "email_config"}

\* The messages with those of database_url and email_config exchanged.
ExpectMsg_swapped(a) ==
    CASE a = "tls_config"   -> "Could not resolve TLS config."
      [] a = "log_level"    -> "Could not resolve log level."
      [] a = "bind_to"      -> "Could not resolve binding URL."
      [] a = "database_url" -> "Could not resolve email config."
      [] a = "email_config" -> "Could not resolve database URL."

\* The message of each .expect(..).
ExpectMsg(a) ==
    CASE a = "tls_config"   -> "Could not resolve TLS config."
      [] a = "log_level"    -> "Could not resolve log level."
      [] a = "bind_to"      -> "Could not resolve binding URL."
      [] a = "database_url" -> "Could not resolve database URL."
      [] a = "email_config" -> "Could not resolve email config."

\* The message of Option::unwrap on None.
UnwrapMsg == "called Option::unwrap() on a None value"

\* The closures with that of bind_to reading log_level.
extractor_mixed(a, c) == IF a = "bind_to" THEN c["log_level"] ELSE c[a]

\* The closures |c| c.<attribute>.clone() handed to reverse_lookup.
extractor(a, c) == c[a]

\* map.contains_key(part) under as_ref().map(..).unwrap_or(false).
HasProfile(c, part) ==
    IF IsSome(c.profile) THEN part \in DOMAIN c.profile.val ELSE FALSE

\* self.profile.as_ref().unwrap().get(part).unwrap(): a panic when the
\* node has no profile map or the map has no such key.
GetChild(c, part) ==
    IF ~IsSome(c.profile) THEN Panic
    ELSE IF part \notin DOMAIN c.profile.val THEN Panic
    ELSE c.profile.val[part]

Tail2(s) == SubSeq(s, 2, Len(s))

\* reverse_lookup with the two sides of each .or(..) exchanged: the node
\* nearer the root wins.
RECURSIVE reverse_lookup_parent_first(_, _, _)
reverse_lookup_parent_first(self, profile_slice, a) ==
    IF Len(profile_slice) >= 2 THEN
        LET child == GetChild(self, profile_slice[1]) IN
        IF IsPanic(child) THEN Panic
        ELSE LET r == reverse_lookup_parent_first(child, Tail2(profile_slice), a) IN
             IF IsPanic(r) THEN Panic ELSE OptionOr(extractor(a, self), r)
    ELSE IF Len(profile_slice) = 1 THEN
        LET child == GetChild(self, profile_slice[1]) IN
        IF IsPanic(child) THEN Panic
        ELSE OptionOr(extractor(a, self), extractor(a, child))
    ELSE extractor(a, self)

\* reverse_lookup without the .or(extractor(self)) of its first branch: a
\* node that has two or more segments below it is never consulted.
RECURSIVE reverse_lookup_no_fallback(_, _, _)
reverse_lookup_no_fallback(self, profile_slice, a) ==
    IF Len(profile_slice) >= 2 THEN
        LET child == GetChild(self, profile_slice[1]) IN
        IF IsPanic(child) THEN Panic
        ELSE reverse_lookup_no_fallback(child, Tail2(profile_slice), a)
    ELSE IF Len(profile_slice) = 1 THEN
        LET child == GetChild(self, profile_slice[1]) IN
        IF IsPanic(child) THEN Panic
        ELSE OptionOr(extractor(a, child), extractor(a, self))
    ELSE extractor(a, self)

\* reverse_lookup that, when the last profile and its parent leave the
\* attribute undefined, takes it from any other profile of that parent.
RECURSIVE reverse_lookup_any_child(_, _, _)
reverse_lookup_any_child(self, profile_slice, a) ==
    IF Len(profile_slice) >= 2 THEN
        LET child == GetChild(self, profile_slice[1]) IN
        IF IsPanic(child) THEN Panic
        ELSE LET r == reverse_lookup_any_child(child, Tail2(profile_slice), a) IN
             IF IsPanic(r) THEN Panic ELSE OptionOr(r, extractor(a, self))
    ELSE IF Len(profile_slice) = 1 THEN
        LET child == GetChild(self, profile_slice[1]) IN
        IF IsPanic(child) THEN Panic
        ELSE LET own    == OptionOr(extractor(a, child), extractor(a, self))
                 others == {n \in DOMAIN self.profile.val :
                               IsSome(extractor(a, self.profile.val[n]))}
             IN  IF IsSome(own) \/ others = {} THEN own
                 ELSE extractor(a, self.profile.val[CHOOSE n \in others : TRUE])
    ELSE extractor(a, self)

\* reverse_lookup whose last branch yields None: with no segment left the
\* node's own value is forgotten.
RECURSIVE reverse_lookup_no_base(_, _, _)
reverse_lookup_no_base(self, profile_slice, a) ==
    IF Len(profile_slice) >= 2 THEN
        LET child == GetChild(self, profile_slice[1]) IN
        IF IsPanic(child) THEN Panic
        ELSE LET r == reverse_lookup_no_base(child, Tail2(profile_slice), a) IN
             IF IsPanic(r) THEN Panic ELSE OptionOr(r, extractor(a, self))
    ELSE IF Len(profile_slice) = 1 THEN
        LET child == GetChild(self, profile_slice[1]) IN
        IF IsPanic(child) THEN Panic
        ELSE OptionOr(extractor(a, child), extractor(a, self))
    ELSE None

\* x, with the optional fields it leaves out filled in from y.
DeepMerge(a, x, y) ==
    IF a = "email_config" /\ IsSome(x) /\ IsSome(y)
    THEN Some([f \in DOMAIN x.val |->
                 IF f \in {"name", "file", "smtp"}
                 THEN OptionOr(x.val[f], y.val[f])
                 ELSE x.val[f]])
    ELSE OptionOr(x, y)

\* The lookup that merges a struct with the structs of the ancestors.
RECURSIVE reverse_lookup_deep_merge(_, _, _)
reverse_lookup_deep_merge(self, profile_slice, a) ==
    IF Len(profile_slice) >= 2 THEN
        LET child == GetChild(self, profile_slice[1]) IN
        IF IsPanic(child) THEN Panic
        ELSE LET r == reverse_lookup_deep_merge(child, Tail2(profile_slice), a) IN
             IF IsPanic(r) THEN Panic ELSE DeepMerge(a, r, extractor(a, self))
    ELSE IF Len(profile_slice) = 1 THEN
        LET child == GetChild(self, profile_slice[1]) IN
        IF IsPanic(child) THEN Panic
        ELSE DeepMerge(a, extractor(a, child), extractor(a, self))
    ELSE extractor(a, self)

\* The lookup whose one-segment case does not fall back on self.
RECURSIVE reverse_lookup_last_child_only(_, _, _)
reverse_lookup_last_child_only(self, profile_slice, a) ==
    IF Len(profile_slice) >= 2 THEN
        LET child == GetChild(self, profile_slice[1]) IN
        IF IsPanic(child) THEN Panic
        ELSE LET r == reverse_lookup_last_child_only(child, Tail2(profile_slice), a) IN
             IF IsPanic(r) THEN Panic ELSE OptionOr(r, extractor(a, self))
    ELSE IF Len(profile_slice) = 1 THEN
        LET child == GetChild(self, profile_slice[1]) IN
        IF IsPanic(child) THEN Panic
        ELSE extractor(a, child)
    ELSE extractor(a, self)

RECURSIVE reverse_lookup(_, _, _)
reverse_lookup(self, profile_slice, a) ==
    IF Len(profile_slice) >= 2 THEN
        LET child == GetChild(self, profile_slice[1]) IN
        IF IsPanic(child) THEN Panic
        ELSE LET r == reverse_lookup(child, Tail2(profile_slice), a) IN
             IF IsPanic(r) THEN Panic ELSE OptionOr(r, extractor(a, self))
    ELSE IF Len(profile_slice) = 1 THEN
        LET child == GetChild(self, profile_slice[1]) IN
        IF IsPanic(child) THEN Panic
        ELSE OptionOr(extractor(a, child), extractor(a, self))
    ELSE extractor(a, self)

-----------------------------------------------------------------------------
(* The configuration documents and profile paths the runs are given. *)

Names == {"dev", "trace"}

\* The name of the profile nested at depth j of a document's main chain,
\* and the other name, which a sibling of that profile takes.
ChainName(j) == IF j % 2 = 1 THEN "dev" ELSE "trace"
OtherName(j) == IF j % 2 = 1 THEN "trace" ELSE "dev"

RECURSIVE ChainPath(_)
ChainPath(j) == IF j = 0 THEN <<>> ELSE Append(ChainPath(j - 1), ChainName(j))

\* The value a document writes for attribute a in the profile at path p.
\* Every definition of a document is a different value, so a resolved value
\* tells which profile it was taken from.
\* The attributes whose value is a struct, with the fields of each struct;
\* name, file and smtp of EmailSenderConfig are Options.
ObjectAttrs == {"email_config", "tls_config", "sysadmin_config"}

SubFields(a) ==
    CASE a = "email_config"    -> {"name", "address", "stub", "file", "smtp"}
      [] a = "tls_config"      -> {"cert_file", "private_key_file"}
      [] a = "sysadmin_config" -> {"create", "email", "password"}

OptionalSubFields == {"name", "file", "smtp"}

\* The value the node at path p gives attribute a.  Every value carries the
\* place it was written at.  A struct sets its optional fields at the nodes
\* of even depth and leaves them out at those of odd depth.
Value(p, a) ==
    IF a \in ObjectAttrs
    THEN [f \in SubFields(a) |->
            IF f \in OptionalSubFields
            THEN IF Len(p) % 2 = 0 THEN Some(<<p, a, f>>) ELSE None
            ELSE <<p, a, f>>]
    ELSE <<p, a>>

Index(a) == CHOOSE k \in 1..Len(FieldOrder) : FieldOrder[k] = a

\* A document is described by:
\*   depth  the nesting of its main chain, root - dev - dev.trace - ...
\*   focus  one attribute, and defs, the depths of the chain that define it
\*   rest   where the other attributes are defined: at the root ("root"),
\*          nowhere ("none"), or at the root for the fields evaluated before
\*          the focus only ("before")
\*   sib    the depth of the chain node that has a second child (a leaf that
\*          defines every attribute and has an empty profile map); no node
\*          has one when sib = depth.
Shapes ==
    { [depth |-> d, focus |-> a, defs |-> D, rest |-> r, sib |-> s] :
        d \in 0..MaxDepth, a \in Attrs, D \in SUBSET (0..MaxDepth),
        r \in {"root", "none", "before"}, s \in 0..MaxDepth }

WellFormed(g) ==
    /\ g.defs \subseteq 0..g.depth
    /\ g.sib <= g.depth

ChainField(g, j, a) ==
    IF a = g.focus
    THEN IF j \in g.defs THEN Some(Value(ChainPath(j), a)) ELSE None
    ELSE IF j = 0 /\ (g.rest = "root" \/ (g.rest = "before" /\ Index(a) < Index(g.focus)))
         THEN Some(Value(<<>>, a))
         ELSE None

Leaf(p) ==
    [a \in Attrs |-> Some(Value(p, a))] @@ ("profile" :> Some(<<>>))

RECURSIVE ChainNode(_, _)
ChainNode(g, j) ==
    LET below == IF j < g.depth
                 THEN (ChainName(j + 1) :> ChainNode(g, j + 1))
                 ELSE <<>>
        side  == IF g.sib = j /\ j < g.depth
                 THEN (OtherName(j + 1) :> Leaf(Append(ChainPath(j), OtherName(j + 1))))
                 ELSE <<>>
    IN  [a \in Attrs |-> ChainField(g, j, a)]
        @@ ("profile" :> IF j < g.depth THEN Some(below @@ side) ELSE None)

Document(g) == ChainNode(g, 0)

\* The document of the resolution example: the root sets log_level and
\* bind_to (and the other required attributes), dev sets bind_to only and
\* dev.trace sets log_level only.
ScenarioNode(fields, children) ==
    [a \in Attrs |-> IF a \in DOMAIN fields THEN Some(fields[a]) ELSE None]
    @@ ("profile" :> children)

ScenarioTrace == ScenarioNode([log_level |-> "trace"], None)

ScenarioDev ==
    ScenarioNode([bind_to |-> "127.0.0.1:9090"], Some("trace" :> ScenarioTrace))

ScenarioRoot ==
    ScenarioNode([log_level    |-> "info",
                  bind_to      |-> "0.0.0.0:8080",
                  tls_config   |-> Value(<<>>, "tls_config"),
                  database_url |-> Value(<<>>, "database_url"),
                  email_config |-> Value(<<>>, "email_config")],
                 Some("dev" :> ScenarioDev))

RECURSIVE Paths(_)
Paths(n) ==
    IF n = 0 THEN {<<>>}
    ELSE Paths(n - 1) \cup
         { Append(p, s) : p \in {q \in Paths(n - 1) : Len(q) = n - 1}, s \in Names }

-----------------------------------------------------------------------------
(* make_concrete, step by step. *)

\* The diagnostic without the requested path.
NotFoundMsg_no_path(path, part) ==
    [text |-> "Profile path not found in config. missing part", path |-> <<>>,
     part |-> part]

NotFoundMsg(path, part) ==
    [text |-> "Profile path not found in config. missing part", path |-> path,
     part |-> part]

\* The last segment of the path, whichever segment was missing.
MissingPart_last(path, k) == path[Len(path)]

\* The `part` the loop holds in its iteration k.
MissingPart(path, k) == path[k]

\* The argument of exit().
ExitStatus == 1

\* What a run that is over has shown of itself.
Outcome ==
    [status |-> status, stderr |-> stderr, exit_code |-> exit_code,
     panic_msg |-> panic_msg, ret |-> ret]

NextField(a) == IF Index(a) < Len(FieldOrder) THEN FieldOrder[Index(a) + 1] ELSE "done"

\* Entry: `let mut scope = self;` and the locals of a fresh call.
Enter(t, p) ==
    /\ tree = t
    /\ profile = p
    /\ pc = "check"
    /\ scope = t
    /\ i = 1
    /\ cfg = <<>>
    /\ calls = <<>>
    /\ stderr = <<>>
    /\ status = "running"
    /\ exit_code = None
    /\ panic_msg = None
    /\ ret = None
    /\ prev = None

\* The threads of the process.
Threads == 1..NumThreads

\* CONFIG before its first use: the Once is incomplete and nothing is stored.
LazyIdle ==
    /\ once = "incomplete"
    /\ config = None
    /\ tpc = [t \in Threads |-> "idle"]
    /\ seen = [t \in Threads |-> None]
    /\ inits = 0

\* cli() before it has read the command line.
CliIdle ==
    /\ arg = None
    /\ cpc = "args"
    /\ profile_path = None

\* The requests to /profile_delete.
Requests == 1..NumRequests

\* No request is being handled.
MeetingIdle ==
    /\ form = None
    /\ available_semesters = <<>>
    /\ issues = <<>>
    /\ hpc = "idle"
    /\ selected_semester = None
    /\ start_time = None
    /\ end_time = None
    /\ meetings = <<>>
    /\ execute_calls = <<>>
    /\ response = None

ErrorIdle ==
    /\ err = None
    /\ epc = "idle"
    /\ log = <<>>
    /\ json_str = None
    /\ http_response = None

DeleteIdle ==
    /\ dpc = [r \in Requests |-> "idle"]
    /\ identity = [r \in Requests |-> None]
    /\ username = [r \in Requests |-> None]
    /\ users = {}
    /\ events = <<>>
    /\ outcome = [r \in Requests |-> None]

WebIdle == MeetingIdle /\ ErrorIdle /\ DeleteIdle

Init ==
    /\ \E p \in Paths(MaxDepth) :
          \/ \E g \in {h \in Shapes : WellFormed(h)} : Enter(Document(g), p)
          \/ Enter(ScenarioRoot, p)
    /\ LazyIdle
    /\ CliIdle
    /\ WebIdle

\* T with the profile at the path P taken out of its parent's map.
RECURSIVE TakeOut(_, _)
TakeOut(T, P) ==
    IF Len(P) = 1
    THEN [T EXCEPT !.profile =
             Some([n \in DOMAIN T.profile.val \ {P[1]} |-> T.profile.val[n]])]
    ELSE [T EXCEPT !.profile =
             Some([T.profile.val EXCEPT ![P[1]] = TakeOut(T.profile.val[P[1]], Tail(P))])]

\* The branch where scope has the profile, taking the child out of the map
\* (remove) where the code borrows it (get).
CheckPartFound_remove ==
    /\ pc = "check"
    /\ i <= Len(profile)
    /\ HasProfile(scope, profile[i])
    /\ scope' = GetChild(scope, profile[i])
    /\ tree' = TakeOut(tree, SubSeq(profile, 1, i))
    /\ i' = i + 1
    /\ UNCHANGED <<profile, pc, cfg, calls, stderr, status, exit_code,
                   panic_msg, ret, prev>>
    /\ UNCHANGED <<lazyVars, cliVars, webVars>>

\* for part in &profile, the branch where scope has the profile.
CheckPartFound ==
    /\ pc = "check"
    /\ i <= Len(profile)
    /\ HasProfile(scope, profile[i])
    /\ scope' = GetChild(scope, profile[i])
    /\ i' = i + 1
    /\ UNCHANGED <<tree, profile, pc, cfg, calls, stderr, status, exit_code,
                   panic_msg, ret, prev>>
    /\ UNCHANGED <<lazyVars, cliVars, webVars>>

\* The else branch without its eprintln!: the process exits silently.
CheckPartMissing_silent ==
    /\ pc = "check"
    /\ i <= Len(profile)
    /\ ~HasProfile(scope, profile[i])
    /\ status' = "exited"
    /\ exit_code' = Some(ExitStatus)
    /\ pc' = "done"
    /\ UNCHANGED <<tree, profile, scope, i, cfg, calls, stderr, panic_msg, ret, prev>>
    /\ UNCHANGED <<lazyVars, cliVars, webVars>>

\* The else branch without its exit(1): the loop is left and the fields are
\* evaluated on the path that failed the check.
CheckPartMissing_continue ==
    /\ pc = "check"
    /\ i <= Len(profile)
    /\ ~HasProfile(scope, profile[i])
    /\ stderr' = Append(stderr, NotFoundMsg(profile, MissingPart(profile, i)))
    /\ pc' = FieldOrder[1]
    /\ UNCHANGED <<tree, profile, scope, i, cfg, calls, status, exit_code,
                   panic_msg, ret, prev>>
    /\ UNCHANGED <<lazyVars, cliVars, webVars>>

\* for part in &profile, the else branch: eprintln! and exit(1).
CheckPartMissing ==
    /\ pc = "check"
    /\ i <= Len(profile)
    /\ ~HasProfile(scope, profile[i])
    /\ stderr' = Append(stderr, NotFoundMsg(profile, MissingPart(profile, i)))
    /\ status' = "exited"
    /\ exit_code' = Some(ExitStatus)
    /\ pc' = "done"
    /\ UNCHANGED <<tree, profile, scope, i, cfg, calls, panic_msg, ret, prev>>
    /\ UNCHANGED <<lazyVars, cliVars, webVars>>

\* The loop is over: let profile_slice = &profile[..].
CheckDone ==
    /\ pc = "check"
    /\ i > Len(profile)
    /\ pc' = FieldOrder[1]
    /\ UNCHANGED <<tree, profile, scope, i, cfg, calls, stderr, status,
                   exit_code, panic_msg, ret, prev>>
    /\ UNCHANGED <<lazyVars, cliVars, webVars>>

\* A field whose failed .expect(..) is noted while the fields after it are
\* still evaluated.
ResolveRequired_keep_going ==
    /\ pc \in Required
    /\ LET r == reverse_lookup(tree, profile, pc) IN
       /\ calls' = Append(calls, pc)
       /\ IF IsPanic(r) THEN
              /\ status' = "panicked"
              /\ panic_msg' = Some(UnwrapMsg)
              /\ pc' = "done"
              /\ cfg' = cfg
          ELSE IF IsSome(r) THEN
              /\ cfg' = cfg @@ (pc :> r.val)
              /\ pc' = NextField(pc)
              /\ UNCHANGED <<status, panic_msg>>
          ELSE
              /\ status' = "panicked"
              /\ panic_msg' = IF IsSome(panic_msg) THEN panic_msg ELSE Some(ExpectMsg(pc))
              /\ pc' = IF NextField(pc) \in Required THEN NextField(pc) ELSE "done"
              /\ cfg' = cfg
    /\ UNCHANGED <<tree, profile, scope, i, stderr, exit_code, ret, prev>>
    /\ UNCHANGED <<lazyVars, cliVars, webVars>>

\* A field that takes a default where the lookup finds nothing.
ResolveRequired_default ==
    /\ pc \in Required
    /\ LET r == reverse_lookup(tree, profile, pc) IN
       /\ calls' = Append(calls, pc)
       /\ IF IsPanic(r) THEN
              /\ status' = "panicked"
              /\ panic_msg' = Some(UnwrapMsg)
              /\ pc' = "done"
              /\ cfg' = cfg
          ELSE
              /\ cfg' = cfg @@ (pc :> IF IsSome(r) THEN r.val ELSE Value(<<"default">>, pc))
              /\ pc' = NextField(pc)
              /\ UNCHANGED <<status, panic_msg>>
    /\ UNCHANGED <<tree, profile, scope, i, stderr, exit_code, ret, prev>>
    /\ UNCHANGED <<lazyVars, cliVars, webVars>>

\* One field of the struct expression: self.reverse_lookup(..).expect(..).
ResolveRequired ==
    /\ pc \in Required
    /\ LET r == reverse_lookup(tree, profile, pc) IN
       /\ calls' = Append(calls, pc)
       /\ IF IsPanic(r) THEN
              /\ status' = "panicked"
              /\ panic_msg' = Some(UnwrapMsg)
              /\ pc' = "done"
              /\ cfg' = cfg
          ELSE IF IsSome(r) THEN
              /\ cfg' = cfg @@ (pc :> r.val)
              /\ pc' = NextField(pc)
              /\ UNCHANGED <<status, panic_msg>>
          ELSE
              /\ status' = "panicked"
              /\ panic_msg' = Some(ExpectMsg(pc))
              /\ pc' = "done"
              /\ cfg' = cfg
    /\ UNCHANGED <<tree, profile, scope, i, stderr, exit_code, ret, prev>>
    /\ UNCHANGED <<lazyVars, cliVars, webVars>>

\* The last field with an .expect(..) like the fields before it.
ResolveOptional_expect ==
    /\ pc = "sysadmin_config"
    /\ LET r == reverse_lookup(tree, profile, pc) IN
       /\ calls' = Append(calls, pc)
       /\ IF IsPanic(r) THEN
              /\ status' = "panicked"
              /\ panic_msg' = Some(UnwrapMsg)
              /\ UNCHANGED <<cfg, ret>>
          ELSE IF IsSome(r) THEN
              /\ cfg' = cfg @@ (pc :> r)
              /\ status' = "returned"
              /\ ret' = Some(cfg')
              /\ UNCHANGED panic_msg
          ELSE
              /\ status' = "panicked"
              /\ panic_msg' = Some("Could not resolve sysadmin config.")
              /\ UNCHANGED <<cfg, ret>>
    /\ pc' = "done"
    /\ UNCHANGED <<tree, profile, scope, i, stderr, exit_code, prev>>
    /\ UNCHANGED <<lazyVars, cliVars, webVars>>

\* The last field, sysadmin_config, has no .expect(..); the struct is then
\* complete and make_concrete returns it.
ResolveOptional ==
    /\ pc = "sysadmin_config"
    /\ LET r == reverse_lookup(tree, profile, pc) IN
       /\ calls' = Append(calls, pc)
       /\ IF IsPanic(r) THEN
              /\ status' = "panicked"
              /\ panic_msg' = Some(UnwrapMsg)
              /\ UNCHANGED <<cfg, ret>>
          ELSE
              /\ cfg' = cfg @@ (pc :> r)
              /\ status' = "returned"
              /\ ret' = Some(cfg')
              /\ UNCHANGED panic_msg
    /\ pc' = "done"
    /\ UNCHANGED <<tree, profile, scope, i, stderr, exit_code, prev>>
    /\ UNCHANGED <<lazyVars, cliVars, webVars>>

\* A start in which `scope` and the loop's position are left as the run
\* before had them.
Restart_keeps_scope ==
    /\ pc = "done"
    /\ pc' = "check"
    /\ cfg' = <<>>
    /\ calls' = <<>>
    /\ stderr' = <<>>
    /\ status' = "running"
    /\ exit_code' = None
    /\ panic_msg' = None
    /\ ret' = None
    /\ prev' = Some(Outcome)
    /\ UNCHANGED <<tree, profile, scope, i>>
    /\ UNCHANGED <<lazyVars, cliVars, webVars>>

\* A start that finds the diagnostics of the run before still in place.
Restart_keeps_stderr ==
    /\ pc = "done"
    /\ pc' = "check"
    /\ scope' = tree
    /\ i' = 1
    /\ cfg' = <<>>
    /\ calls' = <<>>
    /\ status' = "running"
    /\ exit_code' = None
    /\ panic_msg' = None
    /\ ret' = None
    /\ prev' = Some(Outcome)
    /\ UNCHANGED <<tree, profile, stderr>>
    /\ UNCHANGED <<lazyVars, cliVars, webVars>>

\* The program is started again on the same document and profile.
Restart ==
    /\ pc = "done"
    /\ pc' = "check"
    /\ scope' = tree
    /\ i' = 1
    /\ cfg' = <<>>
    /\ calls' = <<>>
    /\ stderr' = <<>>
    /\ status' = "running"
    /\ exit_code' = None
    /\ panic_msg' = None
    /\ ret' = None
    /\ prev' = Some(Outcome)
    /\ UNCHANGED <<tree, profile>>
    /\ UNCHANGED <<lazyVars, cliVars, webVars>>

Step ==
    \/ CheckPartFound
    \/ CheckPartMissing
    \/ CheckDone
    \/ ResolveRequired
    \/ ResolveOptional

Next == Step \/ Restart

Spec == Init /\ [][Next]_vars

\* A run is never suspended: it performs no I/O and waits for nothing.
FairSpec == Spec /\ WF_vars(Step)

-----------------------------------------------------------------------------
(* The vocabulary of the properties: paths, chains and what a run resolved. *)

Prefix(P, j) == SubSeq(P, 1, j)

\* P names an existing profile of T: each segment is a key of the profile
\* map of the node the segments before it lead to.
RECURSIVE ValidPath(_, _)
ValidPath(T, P) ==
    \/ P = <<>>
    \/ /\ T.profile.some
       /\ P[1] \in DOMAIN T.profile.val
       /\ ValidPath(T.profile.val[P[1]], Tail2(P))

\* The node a valid path leads to.
RECURSIVE NodeAt(_, _)
NodeAt(T, P) == IF P = <<>> THEN T ELSE NodeAt(T.profile.val[P[1]], Tail2(P))

\* The node at depth j of the chain from the root to the requested profile,
\* and whether it defines attribute a.
OnChain(j) == NodeAt(tree, Prefix(profile, j))
Defines(j, a) == OnChain(j)[a].some
Target == OnChain(Len(profile))
DefinedOnChain(a) == \E j \in 0..Len(profile) : Defines(j, a)

\* The index of the first segment of P that is missing in T.
FirstMissing(T, P) ==
    CHOOSE k \in 1..Len(P) :
        /\ ~ValidPath(T, Prefix(P, k))
        /\ ValidPath(T, Prefix(P, k - 1))

\* T cut down to the chain from its root to the profile at P: every other
\* profile, and every profile below the last, is removed.
RECURSIVE Prune(_, _)
Prune(T, P) ==
    IF P = <<>> THEN [T EXCEPT !.profile = None]
    ELSE [T EXCEPT !.profile = Some(P[1] :> Prune(T.profile.val[P[1]], Tail2(P)))]

\* What the run holds for a field it has evaluated, as an Option.
Resolved(a) == IF a = "sysadmin_config" THEN cfg[a] ELSE Some(cfg[a])

\* The required fields that no node of the chain defines, and the first of
\* them in the order of the struct expression.
Unresolved == {a \in Required : ~DefinedOnChain(a)}
FirstUnresolved ==
    CHOOSE a \in Unresolved : \A b \in Unresolved : Index(a) <= Index(b)

\* The attribute an .expect(..) message speaks of.
FieldNamedBy(msg) ==
    CASE msg = "Could not resolve TLS config."   -> "tls_config"
      [] msg = "Could not resolve log level."    -> "log_level"
      [] msg = "Could not resolve binding URL."  -> "bind_to"
      [] msg = "Could not resolve database URL." -> "database_url"
      [] msg = "Could not resolve email config." -> "email_config"
      [] OTHER -> "none"

-----------------------------------------------------------------------------
(* The properties. *)

\* C1: on a valid path, an attribute that the requested profile itself
\* defines resolves to exactly that value, whatever the root and the other
\* profiles on the path define for it.
C1_TargetValueWins ==
    ValidPath(tree, profile) =>
        \A a \in Attrs :
            Target[a].some =>
                /\ reverse_lookup(tree, profile, a) = Target[a]
                /\ (a \in DOMAIN cfg => Resolved(a) = Target[a])

\* A run has resolved an attribute that the root, the first profile and the
\* requested profile below them all define, to the requested profile's value.
C1_Witness ==
    /\ ValidPath(tree, profile)
    /\ Len(profile) >= 2
    /\ \E a \in DOMAIN cfg :
          /\ Defines(0, a) /\ Defines(1, a) /\ Defines(Len(profile), a)
          /\ Resolved(a) = Target[a]
          /\ Target[a] # tree[a]

\* C2: on a valid path, an attribute that the requested profile leaves
\* undefined and some node above it defines resolves to the value of the
\* deepest node of the chain that defines it; and whenever the value of a
\* node of the chain is what a lookup returns, no deeper node of the chain
\* defines the attribute (the root's value only when no profile does).
C2_NearestAncestorWins ==
    ValidPath(tree, profile) =>
        \A a \in Attrs :
            LET r == reverse_lookup(tree, profile, a)
                D == {j \in 0..Len(profile) : Defines(j, a)}
            IN  /\ (~Defines(Len(profile), a) /\ D # {}) =>
                       LET n == CHOOSE j \in D : \A k \in D : k <= j IN
                       /\ r = OnChain(n)[a]
                       /\ (a \in DOMAIN cfg => Resolved(a) = OnChain(n)[a])
                /\ \A j \in D :
                       r = OnChain(j)[a] => \A k \in (j + 1)..Len(profile) : ~Defines(k, a)

\* A run has resolved an attribute that the requested profile, two levels
\* down, leaves undefined and both the root and the profile between define:
\* to the value of the profile between.
C2_Witness ==
    /\ ValidPath(tree, profile)
    /\ Len(profile) >= 2
    /\ \E a \in DOMAIN cfg :
          /\ Defines(0, a) /\ Defines(Len(profile) - 1, a) /\ ~Defines(Len(profile), a)
          /\ Resolved(a) = OnChain(Len(profile) - 1)[a]
          /\ Resolved(a) # tree[a]

\* C3: profiles off the requested path never influence the result: every
\* lookup, every field the run has evaluated, and the way the run ends are
\* what they are on the same document with every profile off the chain, and
\* every profile below the requested one, removed.  Two documents that agree
\* along the chain are cut down to the same document, so they give the same
\* results.
C3_OffPathIgnored ==
    ValidPath(tree, profile) =>
        LET Q == Prune(tree, profile) IN
        /\ \A a \in Attrs : reverse_lookup(tree, profile, a) = reverse_lookup(Q, profile, a)
        /\ \A a \in DOMAIN cfg : Resolved(a) = reverse_lookup(Q, profile, a)
        /\ status = "panicked" =>
              /\ reverse_lookup(Q, profile, calls[Len(calls)]) = None
              /\ panic_msg = Some(ExpectMsg(calls[Len(calls)]))
        /\ status = "returned" =>
              \A a \in Attrs : reverse_lookup(Q, profile, a) = (IF a \in Required THEN Some(ret.val[a]) ELSE ret.val[a])
        /\ status # "exited"

\* A run has failed for an attribute that no node of the chain defines while
\* a sibling of the requested profile defines it.
C3_Witness ==
    /\ ValidPath(tree, profile)
    /\ Len(profile) >= 1
    /\ status = "panicked"
    /\ LET parent == OnChain(Len(profile) - 1) IN
       \E n \in DOMAIN parent.profile.val :
          /\ n # profile[Len(profile)]
          /\ parent.profile.val[n][calls[Len(calls)]].some

\* C4: when a segment of the requested path is missing, the run ends by the
\* profile-path-not-found exit, its diagnostic names the first missing
\* segment in path order, and no attribute has been looked up; a run exits
\* this way only for a path with a missing segment.
C4_FirstMissingSegment ==
    /\ ~ValidPath(tree, profile) =>
          /\ calls = <<>> /\ cfg = <<>>
          /\ pc = "done" =>
                /\ status = "exited"
                /\ stderr = <<NotFoundMsg(profile, profile[FirstMissing(tree, profile)])>>
    /\ status = "exited" => ~ValidPath(tree, profile)

\* A run has exited for the first segment of a path of two segments, on a
\* root that has no profile map at all: the second segment is missing too.
C4_Witness ==
    /\ status = "exited"
    /\ Len(profile) >= 2
    /\ ~tree.profile.some
    /\ stderr[1].part = profile[1]


\* The original statement of C5: whichever required attribute the chain
\* leaves undefined, the run fails naming that attribute.
C5_Original ==
    (ValidPath(tree, profile) /\ pc = "done") =>
        \A a \in Required :
            ~DefinedOnChain(a) =>
                /\ status = "panicked"
                /\ panic_msg.some
                /\ FieldNamedBy(panic_msg.val) = a

\* C5 (amended): on a valid path whose chain leaves some required attribute
\* undefined, the run fails by the required-field panic, and the message
\* names the first undefined required attribute in the order tls_config,
\* log_level, bind_to, database_url, email_config; so it names an attribute
\* A whenever A is undefined and every required attribute before A is
\* defined on the chain.
C5_FirstUnresolvedNamed ==
    (ValidPath(tree, profile) /\ pc = "done" /\ Unresolved # {}) =>
        /\ status = "panicked"
        /\ panic_msg.some
        /\ FieldNamedBy(panic_msg.val) = FirstUnresolved

\* A run on a path of one or more segments has failed naming database_url,
\* which no node of the chain defines.
C5_Witness ==
    /\ ValidPath(tree, profile)
    /\ Len(profile) >= 1
    /\ status = "panicked"
    /\ ~DefinedOnChain("database_url")
    /\ panic_msg = Some("Could not resolve database URL.")

\* C6: lookups are invoked in the order of the struct expression, each at
\* most once; a run that fails has stopped at the first required attribute
\* whose lookup is absent, its message names that attribute and no other,
\* every field before it has been evaluated and no field after it has been
\* looked up.
C6_FirstFailureOnly ==
    /\ calls = Prefix(FieldOrder, Len(calls))
    /\ status = "panicked" =>
          LET f == calls[Len(calls)] IN
          /\ f = FirstUnresolved
          /\ panic_msg.some /\ FieldNamedBy(panic_msg.val) = f
          /\ DOMAIN cfg = {calls[k] : k \in 1..(Len(calls) - 1)}
          /\ pc = "done"

\* A run has failed at its third field while two fields after it are
\* undefined on the chain as well.
C6_Witness ==
    /\ status = "panicked"
    /\ Len(calls) = 3
    /\ Cardinality(Unresolved) >= 3
    /\ Len(profile) >= 1

\* C7: with the empty path every lookup yields the root's own value, absent
\* when the root leaves the attribute undefined, and yields the same on the
\* root stripped of all its profiles; the profile check accepts the empty
\* path on every document and leaves `scope` at the root.
C7_EmptyPathIsRoot ==
    profile = <<>> =>
        /\ \A a \in Attrs :
              /\ reverse_lookup(tree, profile, a) = tree[a]
              /\ reverse_lookup([tree EXCEPT !.profile = None], profile, a) = tree[a]
              /\ (a \in DOMAIN cfg => Resolved(a) = tree[a])
        /\ status # "exited" /\ stderr = <<>>
        /\ scope = tree /\ i = 1

\* A run with the empty path has returned a configuration without
\* sysadmin_config, on a document whose root leaves it undefined and has a
\* profile that defines it.
C7_Witness ==
    /\ profile = <<>>
    /\ status = "returned"
    /\ ret.val["sysadmin_config"] = None
    /\ tree.profile.some
    /\ \E n \in DOMAIN tree.profile.val : tree.profile.val[n]["sysadmin_config"].some

\* C8: on a valid path whose chain defines all five required attributes the
\* run returns a configuration, whether or not sysadmin_config is defined;
\* the sysadmin_config it returns is absent exactly when no node of the
\* chain defines it.
C8_OptionalNeverFails ==
    (ValidPath(tree, profile) /\ pc = "done" /\ Unresolved = {}) =>
        /\ status = "returned"
        /\ panic_msg = None
        /\ ret.some
        /\ (ret.val["sysadmin_config"] = None) <=> ~DefinedOnChain("sysadmin_config")

\* A run on a path of one or more segments has returned a configuration
\* whose sysadmin_config is absent.
C8_Witness ==
    /\ status = "returned"
    /\ Len(profile) >= 1
    /\ ret.val["sysadmin_config"] = None
    /\ ~DefinedOnChain("sysadmin_config")

Rank ==
    CASE pc = "check" -> i
      [] pc = "done"  -> Len(profile) + Len(FieldOrder) + 2
      [] OTHER        -> Len(profile) + 1 + Index(pc)

\* C10: a run is a linear pipeline.  It is over exactly when it stands in one
\* of the three final states, which it then keeps; every step moves it
\* forward, so none is repeated; no attribute is looked up before the whole
\* path has been checked and found valid, and none twice; a later run starts
\* with fresh locals and ends as the run before it on the same inputs; and
\* every run that has started comes to its end.
C10_LinearPipeline ==
    /\ [](pc = "done" <=> status \in {"exited", "panicked", "returned"})
    /\ [](status \in {"running", "exited", "panicked", "returned"})
    /\ [][status # "running" => status' \in {status, "running"}]_vars
    /\ [][pc # "done" => Rank' > Rank]_vars
    /\ [](calls # <<>> =>
            /\ pc # "check"
            /\ i = Len(profile) + 1
            /\ ValidPath(tree, profile)
            /\ scope = NodeAt(tree, profile))
    /\ [](\A j, k \in 1..Len(calls) : calls[j] = calls[k] => j = k)
    /\ [][pc = "done" =>
            /\ pc' = "check" /\ scope' = tree' /\ i' = 1
            /\ cfg' = <<>> /\ calls' = <<>> /\ stderr' = <<>>
            /\ status' = "running" /\ exit_code' = None
            /\ panic_msg' = None /\ ret' = None
            /\ tree' = tree /\ profile' = profile]_vars
    /\ []((pc = "done" /\ prev.some) => prev.val = Outcome)
    /\ (status = "running" ~> status # "running")

\* A second run on a path of two segments has ended with a configuration.
C10_Witness ==
    /\ pc = "done"
    /\ prev.some
    /\ status = "returned"
    /\ Len(profile) >= 2


----------------------------------------------------------------------------
\* lazy_static! { pub static ref CONFIG: ConcreteConfig = cli(); }
\*
\* CONFIG is guarded by a std::sync::Once.  The first thread to dereference
\* it moves the Once from incomplete to running and evaluates cli(), which
\* ends in make_concrete; every other dereference waits until the Once is
\* complete.  A panic of the initialiser poisons the Once, and exit(1) ends
\* the process.

\* The first dereference: this thread runs the initialiser.
DerefInit(t) ==
    /\ tpc[t] = "idle"
    /\ once = "incomplete"
    /\ once' = "running"
    /\ tpc' = [tpc EXCEPT ![t] = "init"]
    /\ inits' = inits + 1
    /\ UNCHANGED <<config, seen>>
    /\ UNCHANGED <<coreVars, cliVars, webVars>>

\* The initialiser takes a step of make_concrete.
InitRun ==
    /\ once = "running"
    /\ Step

\* make_concrete has returned: the value is stored, the Once completes and
\* the initialising thread gets its reference.
InitComplete(t) ==
    /\ tpc[t] = "init"
    /\ pc = "done"
    /\ status = "returned"
    /\ config' = ret
    /\ once' = "complete"
    /\ seen' = [seen EXCEPT ![t] = ret]
    /\ tpc' = [tpc EXCEPT ![t] = "idle"]
    /\ UNCHANGED inits
    /\ UNCHANGED <<coreVars, cliVars, webVars>>

\* make_concrete has panicked: the Once is poisoned and the thread unwinds.
InitPanicked(t) ==
    /\ tpc[t] = "init"
    /\ pc = "done"
    /\ status = "panicked"
    /\ once' = "poisoned"
    /\ tpc' = [tpc EXCEPT ![t] = "dead"]
    /\ UNCHANGED <<config, seen, inits>>
    /\ UNCHANGED <<coreVars, cliVars, webVars>>

\* make_concrete has called exit(1): every thread ends.
InitExited ==
    /\ pc = "done"
    /\ status = "exited"
    /\ \E t \in Threads : tpc[t] # "dead"
    /\ tpc' = [t \in Threads |-> "dead"]
    /\ UNCHANGED <<once, config, seen, inits>>
    /\ UNCHANGED <<coreVars, cliVars, webVars>>

\* A dereference that reads the value while the initialiser may still run.
DerefRead_unsynchronised(t) ==
    /\ tpc[t] = "idle"
    /\ once \in {"running", "complete"}
    /\ seen' = [seen EXCEPT ![t] = IF once = "complete" THEN config ELSE Some(cfg)]
    /\ UNCHANGED <<once, config, tpc, inits>>
    /\ UNCHANGED <<coreVars, cliVars, webVars>>

\* A dereference once the Once is complete: the thread reads the value.
DerefRead(t) ==
    /\ tpc[t] = "idle"
    /\ once = "complete"
    /\ seen' = [seen EXCEPT ![t] = config]
    /\ UNCHANGED <<once, config, tpc, inits>>
    /\ UNCHANGED <<coreVars, cliVars, webVars>>

\* A dereference of the poisoned Once panics.
DerefPoisoned(t) ==
    /\ tpc[t] = "idle"
    /\ once = "poisoned"
    /\ tpc' = [tpc EXCEPT ![t] = "dead"]
    /\ UNCHANGED <<once, config, seen, inits>>
    /\ UNCHANGED <<coreVars, cliVars, webVars>>

NextLazy ==
    \/ \E t \in Threads : DerefInit(t)
    \/ InitRun
    \/ \E t \in Threads : InitComplete(t)
    \/ \E t \in Threads : InitPanicked(t)
    \/ InitExited
    \/ \E t \in Threads : DerefRead(t)
    \/ \E t \in Threads : DerefPoisoned(t)

SpecLazy == Init /\ [][NextLazy]_vars

----------------------------------------------------------------------------

\* cli(): the command line, the config file, the profile path, and the call
\* of make_concrete.
\*
\* A string is the sequence of its characters.  The profile option is any
\* string made of up to MaxArgLen pieces, each a profile name or a dot.

Spell(w) ==
    CASE w = "dev"   -> <<"d", "e", "v">>
      [] w = "trace" -> <<"t", "r", "a", "c", "e">>
      [] w = "."     -> <<".">>

RECURSIVE Flatten(_)
Flatten(ws) == IF ws = <<>> THEN <<>> ELSE Spell(ws[1]) \o Flatten(Tail(ws))

RECURSIVE Pieces(_)
Pieces(n) ==
    IF n = 0 THEN {<<>>}
    ELSE Pieces(n - 1) \cup
         {Append(ws, w) : ws \in Pieces(n - 1), w \in Names \cup {"."}}

\* The values of commandline.profile: Option<String>.
ProfileOptions == {None} \cup {Some(Flatten(ws)) : ws \in Pieces(MaxArgLen)}

\* The characters of a segment as a String.
RECURSIVE Str(_)
Str(cs) == IF cs = <<>> THEN "" ELSE cs[1] \o Str(Tail(cs))

\* The place of the first dot of s, or 0.
FirstDot(s) ==
    IF \E k \in 1..Len(s) : s[k] = "."
    THEN CHOOSE k \in 1..Len(s) : s[k] = "." /\ \A j \in 1..(k - 1) : s[j] # "."
    ELSE 0

\* s.split("."): the pieces of s between the dots.  A string without a dot,
\* the empty string too, is one piece; the pieces before a leading dot,
\* after a trailing dot and between two dots are empty strings.
RECURSIVE split(_)
split(s) ==
    LET k == FirstDot(s) IN
    IF k = 0 THEN <<s>>
    ELSE <<SubSeq(s, 1, k - 1)>> \o split(SubSeq(s, k + 1, Len(s)))

\* The config files cli() is run on.
CliDocuments ==
    {Document(g) : g \in {h \in Shapes : /\ WellFormed(h)
                                         /\ h.focus = "log_level"
                                         /\ h.rest = "root"
                                         /\ h.sib = h.depth}}

InitCli ==
    /\ \E t \in CliDocuments : Enter(t, <<>>)
    /\ LazyIdle
    /\ CliIdle
    /\ WebIdle

\* let commandline: CommandLine = CommandLine::from_args();
CliFromArgs ==
    /\ cpc = "args"
    /\ arg' \in ProfileOptions
    /\ cpc' = "read"
    /\ UNCHANGED profile_path
    /\ UNCHANGED <<coreVars, lazyVars, webVars>>

\* The config file is opened, read and parsed.
CliReadConfig ==
    /\ cpc = "read"
    /\ cpc' = "split"
    /\ UNCHANGED <<arg, profile_path>>
    /\ UNCHANGED <<coreVars, lazyVars, webVars>>

\* Opening, reading or parsing fails: eprintln! and the unwrap panics.
CliReadConfigFails ==
    /\ cpc = "read"
    /\ cpc' = "panicked"
    /\ UNCHANGED <<arg, profile_path>>
    /\ UNCHANGED <<coreVars, lazyVars, webVars>>

\* let profile_path = commandline.profile.map(|s| s.split(".")...collect())
\*                                       .unwrap_or(Vec::new());
CliSplitProfile ==
    /\ cpc = "split"
    /\ profile_path' = Some(IF IsSome(arg) THEN split(arg.val) ELSE <<>>)
    /\ cpc' = "call"
    /\ UNCHANGED arg
    /\ UNCHANGED <<coreVars, lazyVars, webVars>>

\* parsed.make_concrete(profile_path): the call.
CliMakeConcrete ==
    /\ cpc = "call"
    /\ profile' = [k \in 1..Len(profile_path.val) |-> Str(profile_path.val[k])]
    /\ cpc' = "make_concrete"
    /\ UNCHANGED <<tree, pc, scope, i, cfg, calls, stderr, status, exit_code,
                   panic_msg, ret, prev>>
    /\ UNCHANGED <<arg, profile_path>>
    /\ UNCHANGED <<lazyVars, webVars>>

\* parsed.make_concrete(profile_path): its steps.
CliRun ==
    /\ cpc = "make_concrete"
    /\ Step

NextCli ==
    \/ CliFromArgs
    \/ CliReadConfig
    \/ CliReadConfigFails
    \/ CliSplitProfile
    \/ CliMakeConcrete
    \/ CliRun

SpecCli == InitCli /\ [][NextCli]_vars

----------------------------------------------------------------------------

C13_Original ==
    status = "exited" =>
        \/ stderr[1].path = Prefix(profile, i - 1)
        \/ \A k \in 1..Len(profile) : profile[k] = stderr[1].part => k = i

\* C13 (amended): the diagnostic of a failed profile check carries the whole
\* requested path and the first missing segment, and nothing else; the
\* prefix consumed before the missing segment is not reported.
C13_WholePathReported ==
    status = "exited" =>
        /\ Len(stderr) = 1
        /\ DOMAIN stderr[1] = {"text", "path", "part"}
        /\ stderr[1].path = profile
        /\ stderr[1].part = profile[i]
        /\ stderr[1].path # Prefix(profile, i - 1)

\* A run has exited at the second segment of a path whose two segments have
\* the same name: the diagnostic is the one a failure at the first segment
\* gives.
C13_Witness ==
    /\ status = "exited"
    /\ Len(profile) = 2
    /\ profile[1] = profile[2]
    /\ i = 2
    /\ stderr = <<NotFoundMsg(profile, profile[1])>>

\* C12: CONFIG is constructed once and is immutable afterwards.  Under every
\* interleaving of the threads that dereference it, the initialiser is
\* entered at most once; a value a reader holds is the complete
\* configuration make_concrete returned (every field present), the same for
\* every reader; and from the moment it is stored the value never changes.
C12_ConstructedOnce ==
    /\ [](inits <= 1)
    /\ [](\A t \in Threads : seen[t].some =>
              /\ once = "complete"
              /\ seen[t] = config
              /\ config = ret
              /\ status = "returned"
              /\ DOMAIN seen[t].val = Attrs)
    /\ [](config.some <=> once = "complete")
    /\ [][config.some => (config' = config /\ inits' = inits)]_vars
    /\ [][\A t \in Threads : seen[t].some => seen'[t] = seen[t]]_vars

\* Every thread has read CONFIG after another thread initialised it.
C12_Witness ==
    /\ once = "complete"
    /\ inits = 1
    /\ \A t \in Threads : seen[t] = config
    /\ Len(profile) >= 1

\* T with every attribute but a erased, at every node.
RECURSIVE Only(_, _)
Only(T, a) ==
    [b \in Attrs |-> IF b = a THEN T[b] ELSE None]
    @@ ("profile" :>
            IF T.profile.some
            THEN Some([n \in DOMAIN T.profile.val |-> Only(T.profile.val[n], a)])
            ELSE None)

\* The definition of a at the deepest node of the chain along P that has
\* one.
NearestDef(T, P, a) ==
    LET J == {j \in 0..Len(P) : NodeAt(T, Prefix(P, j))[a].some}
    IN  IF J = {} THEN None
        ELSE NodeAt(T, Prefix(P, CHOOSE j \in J : \A k \in J : k <= j))[a]

\* C14: attributes are resolved independently of each other.  The value a
\* run holds for an attribute is what the definitions of that attribute
\* alone give (every other attribute erased from the document), so one
\* configuration takes different attributes from different nodes: in the
\* example, [dev, trace] gives trace and 127.0.0.1:9090, [dev] gives info and
\* 127.0.0.1:9090, and the empty path gives info and 0.0.0.0:8080.
C14_AttributesIndependent ==
    /\ \A a \in DOMAIN cfg : Resolved(a) = NearestDef(Only(tree, a), profile, a)
    /\ (tree = ScenarioRoot /\ status = "returned") =>
          /\ profile \in {<<"dev", "trace">>, <<"dev">>, <<>>}
          /\ cfg["log_level"] = IF profile = <<"dev", "trace">> THEN "trace" ELSE "info"
          /\ cfg["bind_to"] = IF profile = <<>> THEN "0.0.0.0:8080" ELSE "127.0.0.1:9090"

\* The run of the example on [dev, trace] has returned, with log_level from
\* dev.trace and bind_to from dev.
C14_Witness ==
    /\ tree = ScenarioRoot
    /\ profile = <<"dev", "trace">>
    /\ status = "returned"
    /\ cfg["log_level"] = ScenarioTrace["log_level"].val
    /\ cfg["bind_to"] = ScenarioDev["bind_to"].val
    /\ cfg["bind_to"] # cfg["log_level"]

\* The chain of nodes from the root T to the profile at the valid path P.
RECURSIVE Chain(_, _)
Chain(T, P) ==
    IF P = <<>> THEN <<T>> ELSE <<T>> \o Chain(T.profile.val[P[1]], Tail2(P))

\* The first defined value of a met when the chain c is scanned from its
\* target end toward the root.
RECURSIVE ChainScan(_, _)
ChainScan(c, a) ==
    IF c = <<>> THEN None
    ELSE IF c[Len(c)][a].some THEN c[Len(c)][a]
    ELSE ChainScan(SubSeq(c, 1, Len(c) - 1), a)

\* The valid paths of the document, of every length.
ValidPaths == {P \in Paths(MaxDepth) : ValidPath(tree, P)}

\* C15: the recursive reverse_lookup is the chain scan.  For every valid
\* path of the document, of every length, and every attribute, its result
\* is the first defined value met when the chain from root to target is
\* scanned from the target end, and it is absent exactly when no node of the
\* chain defines the attribute.
C15_LookupIsChainScan ==
    \A P \in ValidPaths, a \in Attrs :
        LET r == reverse_lookup(tree, P, a)
            c == Chain(tree, P)
        IN  /\ ~IsPanic(r)
            /\ r = ChainScan(c, a)
            /\ r = None <=> \A k \in 1..Len(c) : ~c[k][a].some

\* A lookup through all three cases of the recursion has been made, and its
\* value was found at the parent of the target.
C15_Witness ==
    /\ Len(profile) = 2
    /\ ValidPath(tree, profile)
    /\ \E a \in DOMAIN cfg :
          /\ ~Defines(2, a)
          /\ Defines(1, a)
          /\ Defines(0, a)
          /\ Resolved(a) = OnChain(1)[a]

\* The part of the path that is left at depth j of the recursion.
Suffix(P, j) == SubSeq(P, j + 1, Len(P))

\* C16: the resolver needs no validation of its own.  reverse_lookup is
\* called only on a path the profile check loop accepted, never on one
\* that failed it; and on an accepted path every child lookup, at every
\* depth of the recursion, finds its child: no unwrap on a missing profile
\* map or a missing key happens.
C16_ResolverSafeAfterCheck ==
    /\ (calls # <<>> \/ pc \in Attrs) =>
          /\ ValidPath(tree, profile)
          /\ i = Len(profile) + 1
          /\ scope = Target
    /\ status = "exited" => (calls = <<>> /\ ~ValidPath(tree, profile))
    /\ panic_msg # Some(UnwrapMsg)
    /\ ValidPath(tree, profile) =>
          \A j \in 0..Len(profile) :
             /\ j < Len(profile) => HasProfile(OnChain(j), profile[j + 1])
             /\ \A a \in Attrs :
                   ~IsPanic(reverse_lookup(OnChain(j), Suffix(profile, j), a))

\* Every field has been looked up along an accepted path of two segments.
C16_Witness ==
    /\ Len(profile) = 2
    /\ Len(calls) = Len(FieldOrder)
    /\ status = "returned"
    /\ panic_msg = None

\* C17: validation and resolution leave the document as it was built.  No
\* step of a run, successful or failing, and no new run changes a field or
\* a profile map of any node, nor the requested path.
C17_TreeUnchanged == [][tree' = tree /\ profile' = profile]_vars

\* A run that walked two segments and looked fields up has failed, and a
\* second run on the document has failed in the same way.
C17_Witness ==
    /\ pc = "done"
    /\ Len(profile) = 2
    /\ status = "panicked"
    /\ Len(calls) >= 2
    /\ prev.some
    /\ tree.profile.some

\* C18: a struct-valued attribute is replaced as a whole and never merged
\* field by field.  The value a run holds for email_config, tls_config or
\* sysadmin_config equals, in every field, the value written at one node of
\* the chain (the deepest that defines it); a field of it is never taken
\* from another node, and an optional field that node leaves out stays
\* absent even where an ancestor sets it.
C18_ReplacedWholesale ==
    \A a \in DOMAIN cfg \cap ObjectAttrs :
        Resolved(a).some =>
            LET v == Resolved(a).val IN
            \E j \in 0..Len(profile) :
                /\ Defines(j, a)
                /\ \A k \in (j + 1)..Len(profile) : ~Defines(k, a)
                /\ v = OnChain(j)[a].val
                /\ DOMAIN v = SubFields(a)
                /\ \A f \in SubFields(a) :
                      /\ v[f] = OnChain(j)[a].val[f]
                      /\ f \in OptionalSubFields =>
                            (v[f] = None <=> OnChain(j)[a].val[f] = None)

\* The run holds the email_config of a profile that leaves the sender name,
\* the file and the SMTP settings out, while the root sets all three.
C18_Witness ==
    /\ Len(profile) >= 1
    /\ "email_config" \in DOMAIN cfg
    /\ \A f \in OptionalSubFields : cfg["email_config"][f] = None
    /\ Defines(0, "email_config")
    /\ \A f \in OptionalSubFields : OnChain(0)["email_config"].val[f].some

\* Attribute a is defined at a node that is not on the chain: at a profile
\* below the target or at another profile of a chain node.
DefinedOffChain(a) ==
    \E j \in 0..Len(profile) :
        /\ OnChain(j).profile.some
        /\ \E n \in DOMAIN OnChain(j).profile.val :
              /\ (j < Len(profile) => n # profile[j + 1])
              /\ OnChain(j).profile.val[n][a].some

\* C19: a run ends with a configuration exactly when the path is valid and
\* each of the five required attributes is defined at one or more nodes of
\* the chain.  Nothing is put in the place of a missing definition: every
\* required field of the configuration is a value written on the chain, and
\* a required attribute defined off the path only, or nowhere, makes the
\* run fail.
C19_ResolvedIffDefinedOnChain ==
    pc = "done" =>
        /\ status = "returned" <=>
              (ValidPath(tree, profile) /\ Unresolved = {})
        /\ status = "returned" =>
              /\ ret = Some(cfg)
              /\ DOMAIN cfg = Attrs
              /\ \A a \in Required :
                    \E j \in 0..Len(profile) : Some(cfg[a]) = OnChain(j)[a]
        /\ status # "returned" => ret = None

\* A run on a valid path has failed for a required attribute that no node
\* of the chain defines and a node off the chain does.
C19_Witness ==
    /\ pc = "done"
    /\ ValidPath(tree, profile)
    /\ status = "panicked"
    /\ ret = None
    /\ \E a \in Unresolved : DefinedOffChain(a) /\ panic_msg = Some(ExpectMsg(a))

\* C20: every path cli() hands to make_concrete is the profile string split
\* at its dots, has no empty segment, and is empty when no profile was
\* selected, a profile option given as the empty string included.
C20_Original ==
    cpc = "make_concrete" =>
        /\ IsSome(arg) /\ arg.val # <<>> => profile_path.val = split(arg.val)
        /\ \A k \in 1..Len(profile_path.val) : profile_path.val[k] # <<>>
        /\ (arg = None \/ arg = Some(<<>>)) => profile_path.val = <<>>

\* The profile option is the empty string: make_concrete is handed a path
\* of one empty segment and exits, the root having no profile of that name.
C20_Witness ==
    /\ arg = Some(<<>>)
    /\ profile_path = Some(<< <<>> >>)
    /\ profile = <<"">>
    /\ status = "exited"
    /\ stderr = <<NotFoundMsg(<<"">>, "")>>

-----------------------------------------------------------------------------
(***************************************************************************)
(* submit_meeting (src/src/web/services/meetings/create.rs).               *)
(*                                                                         *)
(* A date is the number of its day.  A time of the form is the string the  *)
(* user sent, a sequence of characters.  Of the form only the fields the   *)
(* handler validates are kept; the others are handed on as they are.       *)
(***************************************************************************)

Result_Ok(v) == [ok |-> TRUE, val |-> v]
Result_Err(e) == [ok |-> FALSE, err |-> e]

Days == 0..MaxDay

Digits == {"0", "1", "2", "3", "4", "5", "6", "7", "8", "9"}

DigitVal(c) ==
    CASE c = "0" -> 0 [] c = "1" -> 1 [] c = "2" -> 2 [] c = "3" -> 3
      [] c = "4" -> 4 [] c = "5" -> 5 [] c = "6" -> 6 [] c = "7" -> 7
      [] c = "8" -> 8 [] c = "9" -> 9

\* The pieces of s between the occurrences of the character c.
RECURSIVE SplitOn(_, _)
SplitOn(s, c) ==
    IF \E k \in 1..Len(s) : s[k] = c
    THEN LET k == CHOOSE k \in 1..Len(s) : s[k] = c /\ \A j \in 1..(k - 1) : s[j] # c
         IN  <<SubSeq(s, 1, k - 1)>> \o SplitOn(SubSeq(s, k + 1, Len(s)), c)
    ELSE <<s>>

\* One or two digits, and the number they write.
IsNumber(cs) == Len(cs) \in {1, 2} /\ \A k \in 1..Len(cs) : cs[k] \in Digits
Number(cs) ==
    IF Len(cs) = 1 THEN DigitVal(cs[1]) ELSE 10 * DigitVal(cs[1]) + DigitVal(cs[2])

\* format!("{}:00", s)
WithSeconds(s) == s \o <<":", "0", "0">>

\* str::parse::<NaiveTime>: hour, minute and second, written in digits and
\* set apart by colons.  The time is given in seconds since midnight.
ParseNaiveTime(s) ==
    LET ps == SplitOn(s, ":") IN
    IF /\ Len(ps) = 3
       /\ \A k \in 1..3 : IsNumber(ps[k])
       /\ Number(ps[1]) < 24
       /\ Number(ps[2]) < 60
       /\ Number(ps[3]) < 60
    THEN Result_Ok(3600 * Number(ps[1]) + 60 * Number(ps[2]) + Number(ps[3]))
    ELSE Result_Err("chrono::ParseError")

\* The times a form may carry: 09:00, 17:30, the empty string, 25:00 and
\* 09:00:00.
TimeStrings ==
    { <<"0", "9", ":", "0", "0">>,
      <<"1", "7", ":", "3", "0">>,
      <<>>,
      <<"2", "5", ":", "0", "0">>,
      <<"0", "9", ":", "0", "0", ":", "0", "0">> }

\* NaiveDate::and_time, and the order of NaiveDateTime.
AndTime(date, time) == [date |-> date, time |-> time]
After(a, b) == a.date > b.date \/ (a.date = b.date /\ a.time > b.time)

\* The semesters of the creation context.
Semester(id, a, b) == [semester_id |-> id, start_date |-> a, end_date |-> b]

Contexts ==
    {<<>>}
    \cup {<<Semester("s1", r[1], r[2])>> : r \in {q \in Days \X Days : q[1] <= q[2]}}
    \cup {<<Semester("s1", a, MaxDay), Semester("s2", 0, a)>> : a \in Days}

\* The forms a user may submit.
Forms ==
    [semester : {"s1", "s2", "s3"}, start_date : Days, start_time : TimeStrings,
     end_date : Days, end_time : TimeStrings]

\* The errors submit_meeting makes.
BadRequest(message) ==
    [variant |-> "BadRequest", header |-> "Malformed Meeting Creation Form",
     message |-> message, show_status_code |-> FALSE]
InvalidForm(is) == [variant |-> "InvalidForm", issues |-> is]
InternalServerError(message) == [variant |-> "InternalServerError", message |-> message]

\* The error an API call came back with.
ApiError == [variant |-> "ApiError"]

\* HttpResponse::Found().header(LOCATION, format!("/meeting/{}", id)).finish()
Redirect(id) == [status |-> 302, location |-> <<"/meeting/", id>>]

\* The variables submit_meeting leaves alone.
NotMeeting == <<coreVars, lazyVars, cliVars, errorVars, deleteVars>>

semester_start == selected_semester.val.start_date
semester_end == selected_semester.val.end_date

\* submit_meeting ends with an error.
ReturnErr(e) ==
    /\ response' = Some(Result_Err(e))
    /\ hpc' = "done"

\* A date-range check: the issue is written to the form and the form is
\* returned as invalid.
ReturnInvalid(field, text) ==
    /\ issues' = issues @@ (field :> text)
    /\ ReturnErr(InvalidForm(issues'))

\* A form is posted to /meeting/create/finish.
Submit ==
    /\ hpc = "idle"
    /\ form' \in {Some(f) : f \in Forms}
    /\ hpc' = "finish_form"
    /\ UNCHANGED <<available_semesters, issues, selected_semester, start_time,
                   end_time, meetings, execute_calls, response>>
    /\ UNCHANGED NotMeeting

\* let mut return_form = finish_form(host.clone()).await?; the context
\* arrives.
FinishFormOk ==
    /\ hpc = "finish_form"
    /\ available_semesters' \in Contexts
    /\ hpc' = "semester"
    /\ UNCHANGED <<form, issues, selected_semester, start_time, end_time,
                   meetings, execute_calls, response>>
    /\ UNCHANGED NotMeeting

\* finish_form(..).await?; the API call fails.
FinishFormErr ==
    /\ hpc = "finish_form"
    /\ ReturnErr(ApiError)
    /\ UNCHANGED <<form, available_semesters, issues, selected_semester,
                   start_time, end_time, meetings, execute_calls>>
    /\ UNCHANGED NotMeeting

\* let selected_semester = ...find(..).ok_or(BadRequest {..})?;
FindSemester ==
    /\ hpc = "semester"
    /\ LET found == {k \in 1..Len(available_semesters) :
                        available_semesters[k].semester_id = form.val.semester}
       IN  IF found # {}
           THEN /\ selected_semester' =
                      Some(available_semesters[CHOOSE k \in found : \A j \in found : k <= j])
                /\ hpc' = "start_before"
                /\ UNCHANGED response
           ELSE /\ ReturnErr(BadRequest(
                      "Could not find selected semester ID in meeting creation context."))
                /\ UNCHANGED selected_semester
    /\ UNCHANGED <<form, available_semesters, issues, start_time, end_time,
                   meetings, execute_calls>>
    /\ UNCHANGED NotMeeting

\* if start_date < semester_start { .. }, without its return.
StartBeforeSemester_no_return ==
    /\ hpc = "start_before"
    /\ IF form.val.start_date < semester_start
       THEN issues' = issues @@ ("start_date" :> "Start date is before the semester starts.")
       ELSE UNCHANGED issues
    /\ hpc' = "start_after"
    /\ UNCHANGED <<form, available_semesters, selected_semester, start_time,
                   end_time, meetings, execute_calls, response>>
    /\ UNCHANGED NotMeeting

\* if start_date < semester_start { .. }
StartBeforeSemester ==
    /\ hpc = "start_before"
    /\ IF form.val.start_date < semester_start
       THEN ReturnInvalid("start_date", "Start date is before the semester starts.")
       ELSE hpc' = "start_after" /\ UNCHANGED <<issues, response>>
    /\ UNCHANGED <<form, available_semesters, selected_semester, start_time,
                   end_time, meetings, execute_calls>>
    /\ UNCHANGED NotMeeting

\* if start_date > semester_end { .. }
StartAfterSemester ==
    /\ hpc = "start_after"
    /\ IF form.val.start_date > semester_end
       THEN ReturnInvalid("start_date", "Start date is after the semester ends.")
       ELSE hpc' = "end_before" /\ UNCHANGED <<issues, response>>
    /\ UNCHANGED <<form, available_semesters, selected_semester, start_time,
                   end_time, meetings, execute_calls>>
    /\ UNCHANGED NotMeeting

\* if end_date < semester_start { .. }
EndBeforeSemester ==
    /\ hpc = "end_before"
    /\ IF form.val.end_date < semester_start
       THEN ReturnInvalid("end_date", "End date is before the semester starts.")
       ELSE hpc' = "end_after" /\ UNCHANGED <<issues, response>>
    /\ UNCHANGED <<form, available_semesters, selected_semester, start_time,
                   end_time, meetings, execute_calls>>
    /\ UNCHANGED NotMeeting

\* if end_date > semester_end { .. }
EndAfterSemester ==
    /\ hpc = "end_after"
    /\ IF form.val.end_date > semester_end
       THEN ReturnInvalid("end_date", "End date is after the semester ends.")
       ELSE hpc' = "end_before_start" /\ UNCHANGED <<issues, response>>
    /\ UNCHANGED <<form, available_semesters, selected_semester, start_time,
                   end_time, meetings, execute_calls>>
    /\ UNCHANGED NotMeeting

\* if end_date < start_date { .. }
EndBeforeStart ==
    /\ hpc = "end_before_start"
    /\ IF form.val.end_date < form.val.start_date
       THEN ReturnInvalid("end_date", "End date is before start date.")
       ELSE hpc' = "start_time" /\ UNCHANGED <<issues, response>>
    /\ UNCHANGED <<form, available_semesters, selected_semester, start_time,
                   end_time, meetings, execute_calls>>
    /\ UNCHANGED NotMeeting

\* let start_time: NaiveTime = format!("{}:00", start_time).parse()
\*                                 .map_err(|e| BadRequest {..})?;
ParseStartTime ==
    /\ hpc = "start_time"
    /\ LET r == ParseNaiveTime(WithSeconds(form.val.start_time)) IN
       IF r.ok
       THEN start_time' = Some(r.val) /\ hpc' = "end_time" /\ UNCHANGED response
       ELSE /\ ReturnErr(BadRequest(<<"Could not parse start time. Internal error: ", r.err>>))
            /\ UNCHANGED start_time
    /\ UNCHANGED <<form, available_semesters, issues, selected_semester, end_time,
                   meetings, execute_calls>>
    /\ UNCHANGED NotMeeting

\* let end_time: NaiveTime = format!("{}:00", end_time).parse()
\*                               .map_err(|e| BadRequest {..})?;
ParseEndTime ==
    /\ hpc = "end_time"
    /\ LET r == ParseNaiveTime(WithSeconds(form.val.end_time)) IN
       IF r.ok
       THEN end_time' = Some(r.val) /\ hpc' = "ordering" /\ UNCHANGED response
       ELSE /\ ReturnErr(BadRequest(<<"Could not parse end time. Internal error: ", r.err>>))
            /\ UNCHANGED end_time
    /\ UNCHANGED <<form, available_semesters, issues, selected_semester, start_time,
                   meetings, execute_calls>>
    /\ UNCHANGED NotMeeting

\* The combined timestamps: start_date.and_time(start_time) and
\* end_date.and_time(end_time).
start == AndTime(form.val.start_date, start_time.val)
end == AndTime(form.val.end_date, end_time.val)

\* The check of the timestamps' order left out.
CheckOrdering_skipped ==
    /\ hpc = "ordering"
    /\ hpc' = "local_start"
    /\ UNCHANGED <<form, available_semesters, issues, selected_semester,
                   start_time, end_time, meetings, execute_calls, response>>
    /\ UNCHANGED NotMeeting

\* if start > end { .. }
CheckOrdering ==
    /\ hpc = "ordering"
    /\ IF After(start, end)
       THEN ReturnInvalid("end_time", "End time is before start time.")
       ELSE hpc' = "local_start" /\ UNCHANGED <<issues, response>>
    /\ UNCHANGED <<form, available_semesters, selected_semester, start_time,
                   end_time, meetings, execute_calls>>
    /\ UNCHANGED NotMeeting

\* Local.from_local_datetime(&start).single().ok_or(BadRequest {..})?
\* Whether the local time zone has exactly one such time is for the
\* machine's time zone to say.
AscribeStart ==
    /\ hpc = "local_start"
    /\ \E single \in BOOLEAN :
          IF single
          THEN hpc' = "local_end" /\ UNCHANGED response
          ELSE ReturnErr(BadRequest("Could not ascribe local timezone to start timestamp."))
    /\ UNCHANGED <<form, available_semesters, issues, selected_semester,
                   start_time, end_time, meetings, execute_calls>>
    /\ UNCHANGED NotMeeting

\* Local.from_local_datetime(&end).single().ok_or(BadRequest {..})?
AscribeEnd ==
    /\ hpc = "local_end"
    /\ \E single \in BOOLEAN :
          IF single
          THEN hpc' = "execute" /\ UNCHANGED response
          ELSE ReturnErr(BadRequest("Could not ascribe local timezone to end timestamp."))
    /\ UNCHANGED <<form, available_semesters, issues, selected_semester,
                   start_time, end_time, meetings, execute_calls>>
    /\ UNCHANGED NotMeeting

\* The arguments of CreateMeeting::execute that come from validated fields.
ExecuteArgs == [semester |-> form.val.semester, start |-> start, end |-> end]

\* CreateMeeting::execute(..).await?.ok_or(ise(..))?: the API creates the
\* meeting and returns its id, or returns no id, or fails.
Execute ==
    /\ hpc = "execute"
    /\ execute_calls' = Append(execute_calls, ExecuteArgs)
    /\ \E r \in {"id", "no id", "error"} :
          CASE r = "id" ->
                  /\ meetings' = Append(meetings, ExecuteArgs)
                  /\ hpc' = "redirect"
                  /\ UNCHANGED response
            [] r = "no id" ->
                  /\ ReturnErr(InternalServerError("Meeting creation call did not return ID."))
                  /\ UNCHANGED meetings
            [] r = "error" ->
                  /\ ReturnErr(ApiError)
                  /\ UNCHANGED meetings
    /\ UNCHANGED <<form, available_semesters, issues, selected_semester,
                   start_time, end_time>>
    /\ UNCHANGED NotMeeting

\* return Ok(HttpResponse::Found().header(LOCATION, ..).finish());
ReturnRedirect ==
    /\ hpc = "redirect"
    /\ response' = Some(Result_Ok(Redirect(Len(meetings))))
    /\ hpc' = "done"
    /\ UNCHANGED <<form, available_semesters, issues, selected_semester,
                   start_time, end_time, meetings, execute_calls>>
    /\ UNCHANGED NotMeeting

InitWeb ==
    /\ Enter(ScenarioRoot, <<>>)
    /\ LazyIdle
    /\ CliIdle
    /\ WebIdle

NextMeeting ==
    \/ Submit
    \/ FinishFormOk
    \/ FinishFormErr
    \/ FindSemester
    \/ StartBeforeSemester
    \/ StartAfterSemester
    \/ EndBeforeSemester
    \/ EndAfterSemester
    \/ EndBeforeStart
    \/ ParseStartTime
    \/ ParseEndTime
    \/ CheckOrdering
    \/ AscribeStart
    \/ AscribeEnd
    \/ Execute
    \/ ReturnRedirect

SpecMeeting == InitWeb /\ [][NextMeeting]_vars

-----------------------------------------------------------------------------
(* What is checked of submit_meeting. *)

\* The semester of the context the form names: the first with its id.
KnownSemester ==
    \E k \in 1..Len(available_semesters) :
        available_semesters[k].semester_id = form.val.semester
TheSemester ==
    available_semesters[
        CHOOSE k \in 1..Len(available_semesters) :
            /\ available_semesters[k].semester_id = form.val.semester
            /\ \A j \in 1..(k - 1) :
                  available_semesters[j].semester_id # form.val.semester]

InSemester(d) == TheSemester.start_date <= d /\ d <= TheSemester.end_date

\* The times of the form, as str::parse reads them.
StartTimeOf == ParseNaiveTime(WithSeconds(form.val.start_time))
EndTimeOf == ParseNaiveTime(WithSeconds(form.val.end_time))

\* Every validation of the form passes.
FormValid ==
    /\ KnownSemester
    /\ InSemester(form.val.start_date)
    /\ InSemester(form.val.end_date)
    /\ form.val.start_date <= form.val.end_date
    /\ StartTimeOf.ok
    /\ EndTimeOf.ok
    /\ ~After(AndTime(form.val.start_date, StartTimeOf.val),
              AndTime(form.val.end_date, EndTimeOf.val))

Redirected == response.some /\ response.val.ok
Failed == response.some /\ ~response.val.ok

FirstFailing ==
    IF ~KnownSemester THEN 1
    ELSE IF form.val.start_date < TheSemester.start_date THEN 2
    ELSE IF form.val.start_date > TheSemester.end_date THEN 3
    ELSE IF form.val.end_date < TheSemester.start_date THEN 4
    ELSE IF form.val.end_date > TheSemester.end_date THEN 5
    ELSE IF form.val.end_date < form.val.start_date THEN 6
    ELSE IF ~StartTimeOf.ok THEN 7
    ELSE IF ~EndTimeOf.ok THEN 8
    ELSE IF After(AndTime(form.val.start_date, StartTimeOf.val),
                  AndTime(form.val.end_date, EndTimeOf.val)) THEN 9
    ELSE 0

\* The error that reports the failure of check k.
ErrorOfCheck(k) ==
    CASE k = 1 -> BadRequest("Could not find selected semester ID in meeting creation context.")
      [] k = 2 -> InvalidForm("start_date" :> "Start date is before the semester starts.")
      [] k = 3 -> InvalidForm("start_date" :> "Start date is after the semester ends.")
      [] k = 4 -> InvalidForm("end_date" :> "End date is before the semester starts.")
      [] k = 5 -> InvalidForm("end_date" :> "End date is after the semester ends.")
      [] k = 6 -> InvalidForm("end_date" :> "End date is before start date.")
      [] k = 7 -> BadRequest(<<"Could not parse start time. Internal error: ", StartTimeOf.err>>)
      [] k = 8 -> BadRequest(<<"Could not parse end time. Internal error: ", EndTimeOf.err>>)
      [] k = 9 -> InvalidForm("end_time" :> "End time is before start time.")

\* The API call for the context failed: the form was not looked at.
NoContext == Failed /\ response.val.err = ApiError /\ execute_calls = <<>>

-----------------------------------------------------------------------------
(***************************************************************************)
(* impl ResponseError for TelescopeError (src/src/error.rs).               *)
(***************************************************************************)

TELESCOPE_ERROR_MIME == "application/prs.telescope.error+json"

\* The strings an error may carry.
Texts == {"a", "b", "c"}

\* The values of the enum TelescopeError.  The lettre errors carry their
\* cause as an Option.
TelescopeErrors ==
    {[variant |-> "PageNotFound"], [variant |-> "FutureCanceled"],
     [variant |-> "NotImplemented"]}
    \cup [variant : {"ResourceNotFound", "BadRequest"}, header : Texts, message : Texts]
    \cup [variant : {"RenderingError"}, desc : Texts]
    \cup [variant : {"InternalServerError"}, message : Texts]
    \cup [variant : {"LettreFileError", "LettreSmtpError"},
          source : {None, Some("cause")}, description : Texts]
    \cup [variant : {"NegativeSmtpResponse"}, code : {"4xx", "5xx"}, message : Texts]

\* status_code without the arm of PageNotFound.
status_code_no_page_arm(self) ==
    CASE self.variant = "BadRequest" -> 400
      [] self.variant = "ResourceNotFound" -> 404
      [] self.variant = "NotImplemented" -> 501
      [] OTHER -> 500

\* fn status_code(&self) -> StatusCode
status_code(self) ==
    CASE self.variant = "BadRequest" -> 400
      [] self.variant = "ResourceNotFound" -> 404
      [] self.variant = "PageNotFound" -> 404
      [] self.variant = "NotImplemented" -> 501
      [] OTHER -> 500

\* The derived Display: what error! writes.
Display(self) ==
    CASE self.variant = "PageNotFound" -> <<"Page Not Found">>
      [] self.variant = "ResourceNotFound" -> <<self.header, ": ", self.message>>
      [] self.variant = "RenderingError" ->
            <<"Error rendering handlebars template: ", self.desc>>
      [] self.variant = "FutureCanceled" -> <<"Internal future canceled">>
      [] self.variant = "InternalServerError" ->
            <<"Internal server error: ", self.message>>
      [] self.variant = "BadRequest" ->
            <<"Bad Request - ", self.header, ": ", self.message>>
      [] self.variant = "LettreFileError" -> <<"Lettre File Error: ", self.description>>
      [] self.variant = "LettreSmtpError" -> <<"Lettre SMTP Error: ", self.description>>
      [] self.variant = "NegativeSmtpResponse" ->
            <<"Negative SMTP response: ", self.code, " - ", self.message>>
      [] self.variant = "NotImplemented" -> <<"Not Implemented">>

\* serde_json::to_string(self): the variant's name and its fields, the
\* fields marked serde(skip) left out.
to_string(self) ==
    [tag |-> self.variant,
     fields |-> [f \in DOMAIN self \ {"variant", "source"} |-> self[f]]]

NotError == <<coreVars, lazyVars, cliVars, meetingVars, deleteVars>>

\* A service has returned an error and error_response is called on it.
ErrorRaised ==
    /\ epc = "idle"
    /\ err' \in {Some(e) : e \in TelescopeErrors}
    /\ epc' = "log"
    /\ UNCHANGED <<log, json_str, http_response>>
    /\ UNCHANGED NotError

\* error!("Service generated error: {}", self);
LogError ==
    /\ epc = "log"
    /\ log' = Append(log, <<"Service generated error: ", Display(err.val)>>)
    /\ epc' = "serialize"
    /\ UNCHANGED <<err, json_str, http_response>>
    /\ UNCHANGED NotError

\* let json_str = serde_json::to_string(self).expect(..);
SerializeError ==
    /\ epc = "serialize"
    /\ json_str' = Some(to_string(err.val))
    /\ epc' = "build"
    /\ UNCHANGED <<err, log, http_response>>
    /\ UNCHANGED NotError

\* HttpResponseBuilder::new(self.status_code())
\*     .set_header(CONTENT_TYPE, TELESCOPE_ERROR_MIME).body(json_str)
BuildResponse ==
    /\ epc = "build"
    /\ http_response' =
          Some([status |-> status_code(err.val),
                headers |-> ("content-type" :> TELESCOPE_ERROR_MIME),
                body |-> json_str.val])
    /\ epc' = "done"
    /\ UNCHANGED <<err, log, json_str>>
    /\ UNCHANGED NotError

NextError == ErrorRaised \/ LogError \/ SerializeError \/ BuildResponse

SpecError == InitWeb /\ [][NextError]_vars

\* The status each variant is to be answered with.
StatusOfVariant ==
    [v \in {e.variant : e \in TelescopeErrors} |->
        IF v = "BadRequest" THEN 400
        ELSE IF v \in {"ResourceNotFound", "PageNotFound"} THEN 404
        ELSE IF v = "NotImplemented" THEN 501
        ELSE 500]

\* C23: status_code gives 400 for BadRequest, 404 for ResourceNotFound and
\* PageNotFound, 501 for NotImplemented and 500 for every other variant; and
\* the response error_response builds has that status code and the content
\* type TELESCOPE_ERROR_MIME.
C23_StatusAndMime ==
    /\ \A e \in TelescopeErrors : status_code(e) = StatusOfVariant[e.variant]
    /\ http_response.some =>
          /\ http_response.val.status = StatusOfVariant[err.val.variant]
          /\ http_response.val.status = status_code(err.val)
          /\ http_response.val.headers = ("content-type" :> TELESCOPE_ERROR_MIME)
          /\ http_response.val.body = json_str.val
    /\ epc = "done" => http_response.some

\* The response to PageNotFound has been built.
C23_Witness ==
    /\ epc = "done"
    /\ err = Some([variant |-> "PageNotFound"])
    /\ http_response.val.status = 404
    /\ http_response.val.headers["content-type"] = TELESCOPE_ERROR_MIME

-----------------------------------------------------------------------------
(***************************************************************************)
(* profile_delete (src/src/web/services/user/delete.rs).                   *)
(*                                                                         *)
(* Several requests are handled at a time; each has its own session        *)
(* identity, and all of them speak to the one API.                         *)
(***************************************************************************)

Usernames == {"alice", "bob"}

NotDelete == <<coreVars, lazyVars, cliVars, meetingVars, errorVars>>

MissingUsername == InternalServerError("Missing username")
RenderError == [variant |-> "RenderingError"]
SuccessPage ==
    [header |-> "Account deletion",
     message |-> "Your account was deleted successfully."]

\* Request r ends with an error.
DeleteErr(r, e) ==
    /\ outcome' = [outcome EXCEPT ![r] = Some(Result_Err(e))]
    /\ dpc' = [dpc EXCEPT ![r] = "done"]

\* A request to /profile_delete arrives with its session identity.
DeleteRequest(r) ==
    /\ dpc[r] = "idle"
    /\ \E u \in Usernames : identity' = [identity EXCEPT ![r] = Some(u)]
    /\ dpc' = [dpc EXCEPT ![r] = "username"]
    /\ UNCHANGED <<username, users, events, outcome>>
    /\ UNCHANGED NotDelete

\* identity.get_rcos_username().await.map(|x| x.ok_or(ise(..)))??: the
\* lookup gives the username of the identity.
UsernameResolved(r) ==
    /\ dpc[r] = "username"
    /\ username' = [username EXCEPT ![r] = identity[r]]
    /\ dpc' = [dpc EXCEPT ![r] = "delete"]
    /\ UNCHANGED <<identity, users, events, outcome>>
    /\ UNCHANGED NotDelete

\* The lookup fails, or finds no username: the handler returns the error.
UsernameUnresolved(r) ==
    /\ dpc[r] = "username"
    /\ \E e \in {ApiError, MissingUsername} : DeleteErr(r, e)
    /\ UNCHANGED <<identity, username, users, events>>
    /\ UNCHANGED NotDelete

\* DeleteUser::execute(..).await?: the API deletes the account.
DeleteUserOk(r) ==
    /\ dpc[r] = "delete"
    /\ users' = users \ {username[r].val}
    /\ events' = Append(events, <<"deleted", r>>)
    /\ dpc' = [dpc EXCEPT ![r] = "forget"]
    /\ UNCHANGED <<identity, username, outcome>>
    /\ UNCHANGED NotDelete

\* The deletion call fails, and the identity is forgotten all the same.
DeleteUserFails_forgets(r) ==
    /\ dpc[r] = "delete"
    /\ identity' = [identity EXCEPT ![r] = None]
    /\ events' = Append(events, <<"forgot", r>>)
    /\ DeleteErr(r, ApiError)
    /\ UNCHANGED <<username, users>>
    /\ UNCHANGED NotDelete

\* DeleteUser::execute(..).await?: the call fails and the handler returns
\* the error.
DeleteUserFails(r) ==
    /\ dpc[r] = "delete"
    /\ DeleteErr(r, ApiError)
    /\ UNCHANGED <<identity, username, users, events>>
    /\ UNCHANGED NotDelete

\* identity.forget();
Forget(r) ==
    /\ dpc[r] = "forget"
    /\ identity' = [identity EXCEPT ![r] = None]
    /\ events' = Append(events, <<"forgot", r>>)
    /\ dpc' = [dpc EXCEPT ![r] = "render"]
    /\ UNCHANGED <<username, users, outcome>>
    /\ UNCHANGED NotDelete

\* jumbotron::new(..).render_into_page(..).await?: the page is rendered
\* and returned.
RenderOk(r) ==
    /\ dpc[r] = "render"
    /\ events' = Append(events, <<"rendered", r>>)
    /\ outcome' = [outcome EXCEPT ![r] = Some(Result_Ok(SuccessPage))]
    /\ dpc' = [dpc EXCEPT ![r] = "done"]
    /\ UNCHANGED <<identity, username, users>>
    /\ UNCHANGED NotDelete

\* Rendering fails and the handler returns the error.
RenderFails(r) ==
    /\ dpc[r] = "render"
    /\ DeleteErr(r, RenderError)
    /\ UNCHANGED <<identity, username, users, events>>
    /\ UNCHANGED NotDelete

InitDelete ==
    /\ Enter(ScenarioRoot, <<>>)
    /\ LazyIdle
    /\ CliIdle
    /\ MeetingIdle
    /\ ErrorIdle
    /\ dpc = [r \in Requests |-> "idle"]
    /\ identity = [r \in Requests |-> None]
    /\ username = [r \in Requests |-> None]
    /\ users = Usernames
    /\ events = <<>>
    /\ outcome = [r \in Requests |-> None]

NextDelete ==
    \E r \in Requests :
        \/ DeleteRequest(r)
        \/ UsernameResolved(r)
        \/ UsernameUnresolved(r)
        \/ DeleteUserOk(r)
        \/ DeleteUserFails(r)
        \/ Forget(r)
        \/ RenderOk(r)
        \/ RenderFails(r)

SpecDelete == InitDelete /\ [][NextDelete]_vars

\* The place of an event in the order of events, 0 if it has not happened.
When(e) == IF \E k \in 1..Len(events) : events[k] = e
           THEN CHOOSE k \in 1..Len(events) : events[k] = e
           ELSE 0
Happened(e) == When(e) # 0

\* C24: in profile_delete the identity is forgotten only after the deletion
\* has succeeded.  If the username cannot be resolved or the deletion call
\* fails, the handler returns the error, does not forget the identity and
\* renders no page; the success page is rendered only after the deletion
\* and then the forgetting have happened.
C24_ForgetAfterDelete ==
    \A r \in Requests :
        /\ Happened(<<"forgot", r>>) =>
              /\ Happened(<<"deleted", r>>)
              /\ When(<<"deleted", r>>) < When(<<"forgot", r>>)
              /\ username[r].val \notin users
        /\ Happened(<<"rendered", r>>) =>
              /\ Happened(<<"forgot", r>>)
              /\ When(<<"forgot", r>>) < When(<<"rendered", r>>)
        /\ (outcome[r].some /\ outcome[r].val.ok) =>
              /\ outcome[r].val.val = SuccessPage
              /\ Happened(<<"rendered", r>>)
              /\ identity[r] = None
        /\ (outcome[r].some /\ ~outcome[r].val.ok
                /\ ~Happened(<<"deleted", r>>)) =>
              /\ outcome[r].val.err \in {ApiError, MissingUsername}
              /\ ~Happened(<<"forgot", r>>)
              /\ ~Happened(<<"rendered", r>>)
              /\ identity[r] # None
        /\ (identity[r] = None /\ dpc[r] # "idle") => Happened(<<"forgot", r>>)

\* One request has failed at the deletion call and keeps its identity;
\* another has deleted, forgotten and rendered.
C24_Witness ==
    \E r, q \in Requests :
        /\ outcome[r] = Some(Result_Err(ApiError))
        /\ username[r] # None
        /\ identity[r] # None
        /\ outcome[q] = Some(Result_Ok(SuccessPage))
        /\ events[Len(events)] = <<"rendered", q>>

====
